---- MODULE Spec2Model ----
(***************************************************************************)
(* Model of the decision engine of detector.py (AutonomousDecisionSystem)  *)
(* and of the media endpoint of main.py that drives it.                    *)
(*                                                                         *)
(* Arithmetic.  analyze_frame works on real numbers: h_norm = (y2-y1) /    *)
(* height and risk = 5.0*max_h_norm + 2.0*vulnerable_count.  The model     *)
(* keeps every quantity exact by scaling it with 10*height: the scaled     *)
(* risk is 50*max(y2-y1) + 20*vulnerable_count*height, compared with       *)
(* 35*height (3.5) and 12*height (1.2).                                    *)
(***************************************************************************)
EXTENDS Integers, Sequences, FiniteSets

\* ------------------------------------------------------------ bounds
\* Largest number of boxes in one enumerated detection set.
MaxBoxes == 2
\* Largest number of frames a video source reports or delivers.
MaxFrames == 2
\* Number of media jobs one engine instance is followed through.
MaxJobs == 2
\* Largest number of frames of the video followed through the window alone.
MaxWindowFrames == 11
\* Number of live sessions (calls of generate_frames) followed.
MaxSessions == 2
\* Number of calls of stop_streaming followed.
MaxStops == 2
\* The frames yielded after a return of stop_streaming are counted up to
\* this number.
MaxCounted == 2

\* ------------------------------------------- configuration of the engine
CRITICAL_CLASSES == {0, 1, 2, 3, 5, 7}
VULNERABLE_CLASSES == {0, 1}
\* RISK_THRESHOLD_STOP = 3.5 and RISK_THRESHOLD_SLOW = 1.2, in tenths.
RISK_THRESHOLD_STOP == 35
RISK_THRESHOLD_SLOW == 12
\* The weights 5.0 and 2.0 of the risk score, in tenths.
HeightWeight == 50
VulnerableWeight == 20
\* deque(maxlen=10)
BufferMaxLen == 10

GO == "GO"
SLOW_DOWN == "SLOW DOWN"
STOP == "STOP"
Sentinel == "--"
Actions == {GO, SLOW_DOWN, STOP}

VARIABLES
    decision_buffer,        \* self.decision_buffer, oldest entry first
    latest_action,          \* self.latest_action
    processing_status,      \* main.processing_status
    pc,                     \* position of the media endpoint / process_video
    job,                    \* the input of the current (or last) media job
    remaining,              \* frames the source has still to deliver
    cap,                    \* the cv2.VideoCapture of process_video
    out,                    \* the cv2.VideoWriter of process_video
    total_frames,           \* local total_frames of process_video
    frame_count,            \* local frame_count of process_video
    final_consensus_action, \* local final_consensus_action of process_video
    frame,                  \* the frame last read, with its detections
    response,               \* what the endpoint returned for the last job
    raised,                 \* the exception in flight, "" when none
    job_actions,            \* history: the per-frame actions of this job
    jobs,                   \* history: number of jobs started
    streaming_running,      \* self.streaming_running
    webcam_capture,         \* self.webcam_capture: 0 for None, else a handle
    handle,                 \* the capture objects made by generate_frames
    gen,                    \* the generators made by generate_frames
    stopper                 \* the task running stop_streaming

vars == <<decision_buffer, latest_action, processing_status, pc, job,
          remaining, cap, out, total_frames, frame_count,
          final_consensus_action, frame, response, raised, job_actions, jobs,
          streaming_running, webcam_capture, handle, gen, stopper>>

\* The state of the live session, which the media jobs leave alone.
liveVars == <<streaming_running, webcam_capture, handle, gen, stopper>>

\* ------------------------------------------------------------ frames
\* A detection is a class and the vertical extent of its box; a frame is its
\* pixel height and the boxes the detector reports for it, in report order.
NoFrame == [height |-> 0, boxes |-> <<>>]

FrameHeights == {50}
BoxEdges == {0, 12, 15, 35, 50}
BoxClasses == {0, 1, 2}

BoxesOf(h) ==
    { [cls |-> c, y1 |-> a, y2 |-> b] :
        c \in BoxClasses,
        a \in {y \in BoxEdges : y < h},
        b \in {y \in BoxEdges : y <= h} }

\* classes=self.CRITICAL_CLASSES: only these classes are reported; x1 < x2,
\* y1 < y2.
WellFormedBoxes(h) ==
    { b \in BoxesOf(h) : b.cls \in CRITICAL_CLASSES /\ b.y1 < b.y2 }

SeqsUpTo(S, n) == UNION { [1..k -> S] : k \in 0..n }

Frames ==
    UNION { { [height |-> h, boxes |-> bs] :
                bs \in SeqsUpTo(WellFormedBoxes(h), MaxBoxes) } :
            h \in FrameHeights }

\* ----------------------------------------------------- analyze_frame
Max2(a, b) == IF a >= b THEN a ELSE b

RECURSIVE RiskLoopLastBox(_, _, _, _)
RiskLoopLastBox(boxes, i, max_h, vulnerable_count) ==
    IF i > Len(boxes)
    THEN [max_h |-> max_h, vulnerable_count |-> vulnerable_count]
    ELSE RiskLoopLastBox(boxes, i + 1,
                         boxes[i].y2 - boxes[i].y1,
                         IF boxes[i].cls \in VULNERABLE_CLASSES
                         THEN vulnerable_count + 1 ELSE vulnerable_count)

\* The loop over results[0].boxes: from box i on, with the running maximum
\* box height max_h (in pixels) and the running vulnerable_count.
RECURSIVE RiskLoop(_, _, _, _)
RiskLoop(boxes, i, max_h, vulnerable_count) ==
    IF i > Len(boxes)
    THEN [max_h |-> max_h, vulnerable_count |-> vulnerable_count]
    ELSE RiskLoop(boxes, i + 1,
                  Max2(max_h, boxes[i].y2 - boxes[i].y1),
                  IF boxes[i].cls \in VULNERABLE_CLASSES
                  THEN vulnerable_count + 1 ELSE vulnerable_count)

\* risk_score * 10 * height
RiskScore(f) ==
    LET r == RiskLoop(f.boxes, 1, 0, 0)
    IN  HeightWeight * r.max_h + VulnerableWeight * r.vulnerable_count * f.height

ThresholdActionStrictOff(risk, height) ==
    IF risk >= RISK_THRESHOLD_STOP * height THEN STOP
    ELSE IF risk >= RISK_THRESHOLD_SLOW * height THEN SLOW_DOWN
    ELSE GO

\* if risk_score > STOP ... elif risk_score > SLOW ... else GO
ThresholdAction(risk, height) ==
    IF risk > RISK_THRESHOLD_STOP * height THEN STOP
    ELSE IF risk > RISK_THRESHOLD_SLOW * height THEN SLOW_DOWN
    ELSE GO

\* The action analyze_frame returns for a frame.
analyze_frame(f) == ThresholdAction(RiskScore(f), f.height)

\* Three frames of a 50 pixel high video: nothing detected (GO), one car
\* 15 pixels high (risk 1.5, SLOW DOWN), one pedestrian 35 pixels high
\* (risk 5.5, STOP).
SampleFrames ==
    { [height |-> 50, boxes |-> <<>>],
      [height |-> 50, boxes |-> <<[cls |-> 2, y1 |-> 0, y2 |-> 15]>>],
      [height |-> 50, boxes |-> <<[cls |-> 0, y1 |-> 15, y2 |-> 50]>>] }

\* ------------------------------------------------- decision window
DequeAppendNoEvict(buf, a) == Append(buf, a)

\* deque(maxlen=10).append: a full deque drops its oldest entry.
DequeAppend(buf, a) ==
    IF Len(buf) >= BufferMaxLen THEN Append(Tail(buf), a) ELSE Append(buf, a)

\* self.decision_buffer.count
Count(buf, a) == Cardinality({ i \in DOMAIN buf : buf[i] = a })

Elements(buf) == { buf[i] : i \in DOMAIN buf }

\* The orders in which set(self.decision_buffer) can be iterated: the order
\* of a set of strings follows their hashes, which differ from one process
\* to the next, so every order is possible.
SetIterOrders(buf) ==
    LET S == Elements(buf)
    IN  { o \in [1..Cardinality(S) -> S] :
            \A i, j \in DOMAIN o : i # j => o[i] # o[j] }

RECURSIVE MinByKey(_, _, _, _)
MinByKey(order, i, best, buf) ==
    IF i > Len(order) THEN best
    ELSE MinByKey(order, i + 1,
                  IF Count(buf, order[i]) < Count(buf, best)
                  THEN order[i] ELSE best,
                  buf)

\* max(iterable, key=...): the first item, in iteration order, whose key is
\* the greatest.
RECURSIVE MaxByKey(_, _, _, _)
MaxByKey(order, i, best, buf) ==
    IF i > Len(order) THEN best
    ELSE MaxByKey(order, i + 1,
                  IF Count(buf, order[i]) > Count(buf, best)
                  THEN order[i] ELSE best,
                  buf)

\* max(set(self.decision_buffer), key=self.decision_buffer.count), the set
\* iterated in the given order; buf is not empty.
CurrentAction(order, buf) == MaxByKey(order, 2, order[1], buf)

\* ------------------------------------------------ processing status
\* int((frame_count / total_frames) * 100) for total_frames > 0.  The
\* double-precision result equals the exact floor for every total_frames
\* below 20, far above the frame counts followed here.
ProgressOf(count, total) == (count * 100) \div total

InitialStatus ==
    [is_processing |-> FALSE, progress |-> 0, total_frames |-> 0,
     current_frame |-> 0]

NoDecision == "none"
NoResponse == [status |-> "none", final_decision |-> NoDecision,
               media_type |-> "none"]
NoJob == [kind |-> "none", opens |-> FALSE, reported |-> 0, frames |-> 0]

\* The uploads a caller can post: an image that decodes or not, a video that
\* cannot be opened, or one that reports `reported` frames and delivers
\* `frames` of them.
VideoInputs ==
    { [kind |-> "video", opens |-> FALSE, reported |-> 0, frames |-> 0] }
    \cup { [kind |-> "video", opens |-> TRUE, reported |-> r, frames |-> n] :
              r \in 0..MaxFrames, n \in 0..MaxFrames }

ImageInputs ==
    { [kind |-> "image", opens |-> o, reported |-> 0, frames |-> 0] :
        o \in BOOLEAN }

\* ------------------------------------------------------ live session
\* A capture object: not made yet ("none"), made but not opened
\* ("unopened"), open, released by release(), or closed by its finalizer
\* after the last reference to it was dropped ("finalized").  `releases`
\* counts the calls of release() on it, `misused` records a read() or a
\* release() on it after it was released, `was_open` that the camera opened.
NoHandle ==
    [state |-> "none", releases |-> 0, misused |-> FALSE, was_open |-> FALSE]

\* A generator made by generate_frames: its position, whether it has yielded
\* a frame, how it ended, and history: whether a call of stop_streaming that
\* arrived during its loop has returned and the frames yielded since,
\* whether a call made before its first step has returned.
NoGenerator ==
    [pc |-> "none", yielded |-> FALSE, ended |-> "", stop_returned |-> FALSE,
     after_stop |-> 0, early_stop |-> FALSE]

\* The task of stop_streaming: its position, the calls made, whether the last
\* call raised, and history: whether no generator has taken a step since
\* the last call began, the sessions that were in their loop and those not
\* yet started when it began.
IdleStopper ==
    [pc |-> "idle", calls |-> 0, failed |-> FALSE, quiet |-> FALSE,
     in_loop |-> {}, unstarted |-> {}]

Sessions == 1..MaxSessions

\* The positions of generate_frames inside its while loop, the suspension at
\* the yield included.
LoopPcs == {"l116", "l117", "l120", "yielded"}

Active(g) == g.pc \notin {"none", "created", "done"}

\* The last reference to capture object h is dropped (h = 0: None).  An open
\* capture is then closed by its finalizer or, where finalization is not
\* immediate, stays open with nothing referring to it.
DropOutcomes(hs, h) ==
    IF h = 0 \/ hs[h].state # "open" THEN {hs}
    ELSE {hs, [hs EXCEPT ![h].state = "finalized"]}

\* capture.release(), on an object that may have been released already.
Released(hs, h) ==
    [hs EXCEPT ![h].state = "released",
               ![h].releases = @ + 1,
               ![h].misused = @ \/ hs[h].state = "released"]

\* ------------------------------------------------------------- Init
\* AutonomousDecisionSystem.__init__ and the module level of main.py: the
\* engine and the status as constructed, no job started.
Constructed ==
    /\ decision_buffer = <<>>
    /\ latest_action = Sentinel
    /\ processing_status = InitialStatus
    /\ job = NoJob
    /\ remaining = 0
    /\ cap = "none"
    /\ out = "none"
    /\ total_frames = 0
    /\ frame_count = 0
    /\ final_consensus_action = GO
    /\ response = NoResponse
    /\ raised = ""
    /\ job_actions = <<>>
    /\ jobs = 0
    /\ streaming_running = FALSE
    /\ webcam_capture = 0
    /\ handle = [h \in 1..MaxSessions |-> NoHandle]
    /\ gen = [i \in 1..MaxSessions |-> NoGenerator]
    /\ stopper = IdleStopper

Init ==
    /\ Constructed
    /\ pc = "idle"
    /\ frame = NoFrame

\* --------------------------------------------- the media endpoint
\* process_media_endpoint up to the call of process_video: the upload is a
\* video; processing_status.update({"is_processing": True, "progress": 0,
\* "current_frame": 0}).
StartVideoJob ==
    /\ pc = "idle"
    /\ UNCHANGED liveVars
    /\ jobs < MaxJobs
    /\ \E j \in VideoInputs :
         /\ job' = j
         /\ remaining' = j.frames
    /\ jobs' = jobs + 1
    /\ processing_status' =
         [processing_status EXCEPT !.is_processing = TRUE, !.progress = 0,
                                   !.current_frame = 0]
    /\ pc' = "pv_open"
    /\ cap' = "none"
    /\ out' = "none"
    /\ response' = NoResponse
    /\ raised' = ""
    /\ job_actions' = <<>>
    /\ frame' = NoFrame
    /\ UNCHANGED <<decision_buffer, latest_action, total_frames, frame_count,
                   final_consensus_action>>

\* process_media_endpoint for an image, with process_image inside it:
\* cv2.imread gives None for a file it cannot decode and analyze_frame then
\* raises; otherwise the frame is classified and the action returned.
ImageJob ==
    /\ pc = "idle"
    /\ UNCHANGED liveVars
    /\ jobs < MaxJobs
    /\ jobs' = jobs + 1
    /\ cap' = "none"
    /\ out' = "none"
    /\ job_actions' = <<>>
    /\ frame' = NoFrame
    /\ remaining' = 0
    /\ \E j \in ImageInputs :
         /\ job' = j
         /\ \/ /\ ~j.opens
               /\ raised' = "AttributeError"
               /\ response' = NoResponse
               /\ pc' = "ep_except"
               /\ UNCHANGED latest_action
            \/ /\ j.opens
               /\ \E f \in SampleFrames :
                    /\ latest_action' = analyze_frame(f)
                    /\ response' = [status |-> "success",
                                    final_decision |-> analyze_frame(f),
                                    media_type |-> "image"]
               /\ raised' = ""
               /\ pc' = "idle"
    /\ UNCHANGED <<decision_buffer, processing_status, total_frames,
                   frame_count, final_consensus_action>>

\* ------------------------------------------------------ process_video
\* Lines 70-83: the capture and the writer are created, total_frames is read
\* and published.  A capture that did not open reports 0 frames.
PVOpen ==
    /\ pc = "pv_open"
    /\ UNCHANGED liveVars
    /\ cap' = IF job.opens THEN "open" ELSE "closed"
    /\ total_frames' = IF job.opens THEN job.reported ELSE 0
    /\ processing_status' =
         [processing_status EXCEPT
            !.total_frames = IF job.opens THEN job.reported ELSE 0]
    /\ out' = "open"
    /\ final_consensus_action' = GO
    /\ frame_count' = 0
    /\ pc' = "pv_loop"
    /\ UNCHANGED <<decision_buffer, latest_action, job, remaining, frame,
                   response, raised, job_actions, jobs>>

\* while cap.isOpened(): ret, frame = cap.read(); if not ret: break
PVRead ==
    /\ pc = "pv_loop"
    /\ UNCHANGED liveVars
    /\ \/ /\ cap = "open" /\ remaining > 0
          /\ \E f \in SampleFrames : frame' = f
          /\ remaining' = remaining - 1
          /\ pc' = "pv_frame"
       \/ /\ ~(cap = "open" /\ remaining > 0)
          /\ pc' = "pv_release"
          /\ UNCHANGED <<frame, remaining>>
    /\ UNCHANGED <<decision_buffer, latest_action, processing_status, job,
                   cap, out, total_frames, frame_count,
                   final_consensus_action, response, raised, job_actions,
                   jobs>>

\* Lines 89-95 for one frame: classify, push the action on the window, take
\* the vote, write the frame, count it.  The detector or the writer may
\* raise; nothing in process_video catches it.
PVAnalyze ==
    /\ pc = "pv_frame"
    /\ UNCHANGED liveVars
    /\ frame' = NoFrame
    /\ \/ /\ raised' = "DetectorError"
          /\ pc' = "ep_except"
          /\ UNCHANGED <<latest_action, decision_buffer,
                         final_consensus_action, frame_count, job_actions>>
       \/ /\ latest_action' = analyze_frame(frame)
          /\ decision_buffer' = DequeAppend(decision_buffer, analyze_frame(frame))
          /\ job_actions' = Append(job_actions, analyze_frame(frame))
          /\ \E order \in SetIterOrders(decision_buffer') :
               final_consensus_action' = CurrentAction(order, decision_buffer')
          /\ \/ /\ raised' = "WriterError"
                /\ pc' = "ep_except"
                /\ UNCHANGED frame_count
             \/ /\ frame_count' = frame_count + 1
                /\ pc' = "pv_status"
                /\ UNCHANGED raised
    /\ UNCHANGED <<processing_status, job, remaining, cap, out, total_frames,
                   response, jobs>>

PVSetCurrentOffByOne ==
    /\ pc = "pv_status"
    /\ UNCHANGED liveVars
    /\ processing_status' =
         [processing_status EXCEPT !.current_frame = frame_count - 1]
    /\ pc' = "pv_progress"
    /\ UNCHANGED <<decision_buffer, latest_action, job, remaining, cap, out,
                   total_frames, frame_count, final_consensus_action, frame,
                   response, raised, job_actions, jobs>>

\* progress_status["current_frame"] = frame_count
PVSetCurrent ==
    /\ pc = "pv_status"
    /\ UNCHANGED liveVars
    /\ processing_status' =
         [processing_status EXCEPT !.current_frame = frame_count]
    /\ pc' = "pv_progress"
    /\ UNCHANGED <<decision_buffer, latest_action, job, remaining, cap, out,
                   total_frames, frame_count, final_consensus_action, frame,
                   response, raised, job_actions, jobs>>

\* progress_status["progress"] = int((frame_count / total_frames) * 100):
\* the division raises ZeroDivisionError when total_frames is 0.
PVSetProgress ==
    /\ pc = "pv_progress"
    /\ UNCHANGED liveVars
    /\ \/ /\ total_frames = 0
          /\ raised' = "ZeroDivisionError"
          /\ pc' = "ep_except"
          /\ UNCHANGED processing_status
       \/ /\ total_frames # 0
          /\ processing_status' =
               [processing_status EXCEPT
                  !.progress = ProgressOf(frame_count, total_frames)]
          /\ pc' = "pv_loop"
          /\ UNCHANGED raised
    /\ UNCHANGED <<decision_buffer, latest_action, job, remaining, cap, out,
                   total_frames, frame_count, final_consensus_action, frame,
                   response, job_actions, jobs>>

\* cap.release(); out.release(); return final_consensus_action
PVRelease ==
    /\ pc = "pv_release"
    /\ UNCHANGED liveVars
    /\ cap' = "released"
    /\ out' = "released"
    /\ pc' = "ep_finish"
    /\ UNCHANGED <<decision_buffer, latest_action, processing_status, job,
                   remaining, total_frames, frame_count,
                   final_consensus_action, frame, response, raised,
                   job_actions, jobs>>

\* ------------------------------------- the media endpoint, continued
\* processing_status.update({"is_processing": False, "progress": 100}) and
\* the success result.
EndpointFinish ==
    /\ pc = "ep_finish"
    /\ UNCHANGED liveVars
    /\ processing_status' =
         [processing_status EXCEPT !.is_processing = FALSE, !.progress = 100]
    /\ response' = [status |-> "success",
                    final_decision |-> final_consensus_action,
                    media_type |-> "video"]
    /\ pc' = "idle"
    /\ UNCHANGED <<decision_buffer, latest_action, job, remaining, cap, out,
                   total_frames, frame_count, final_consensus_action, frame,
                   raised, job_actions, jobs>>

EndpointExceptKeepsFlag ==
    /\ pc = "ep_except"
    /\ UNCHANGED liveVars
    /\ response' = [status |-> "error", final_decision |-> NoDecision,
                    media_type |-> "none"]
    /\ pc' = "idle"
    /\ UNCHANGED <<decision_buffer, latest_action, processing_status, job,
                   remaining, cap, out, total_frames, frame_count,
                   final_consensus_action, frame, raised, job_actions, jobs>>

\* except Exception as e: processing_status["is_processing"] = False and the
\* error result.
EndpointExcept ==
    /\ pc = "ep_except"
    /\ UNCHANGED liveVars
    /\ processing_status' = [processing_status EXCEPT !.is_processing = FALSE]
    /\ response' = [status |-> "error", final_decision |-> NoDecision,
                    media_type |-> "none"]
    /\ pc' = "idle"
    /\ UNCHANGED <<decision_buffer, latest_action, job, remaining, cap, out,
                   total_frames, frame_count, final_consensus_action, frame,
                   raised, job_actions, jobs>>

Next ==
    \/ StartVideoJob
    \/ ImageJob
    \/ PVOpen
    \/ PVRead
    \/ PVAnalyze
    \/ PVSetCurrent
    \/ PVSetProgress
    \/ PVRelease
    \/ EndpointFinish
    \/ EndpointExcept

Spec == Init /\ [][Next]_vars

\* ------------------------------------- analyze_frame on its own
\* A freshly constructed engine is handed one frame out of Frames.
InitRisk ==
    /\ Constructed
    /\ pc = "frame"
    /\ frame \in Frames

\* analyze_frame, lines 27-49: self.latest_action = action.
AnalyzeFrame ==
    /\ pc = "frame"
    /\ UNCHANGED liveVars
    /\ latest_action' = analyze_frame(frame)
    /\ pc' = "analyzed"
    /\ UNCHANGED <<decision_buffer, processing_status, job, remaining, cap,
                   out, total_frames, frame_count, final_consensus_action,
                   frame, response, raised, job_actions, jobs>>

\* The frames that differ from f in one detection whose box is higher, the
\* other detections the same.
GrownFrames(f) ==
    UNION { { [f EXCEPT !.boxes[i] = b] :
                b \in { b \in WellFormedBoxes(f.height) :
                           /\ b.cls = f.boxes[i].cls
                           /\ b.y2 - b.y1 > f.boxes[i].y2 - f.boxes[i].y1 } } :
            i \in DOMAIN f.boxes }

\* The frames that are f with one more detection, of a vulnerable class.
WithVulnerable(f) ==
    IF Len(f.boxes) >= MaxBoxes THEN {}
    ELSE { [f EXCEPT !.boxes = Append(f.boxes, b)] :
             b \in { b \in WellFormedBoxes(f.height) :
                        b.cls \in VULNERABLE_CLASSES } }

\* analyze_frame once more, on a frame with one box grown or one vulnerable
\* detection added.
AnalyzeHeavierFrame ==
    /\ pc = "analyzed"
    /\ UNCHANGED liveVars
    /\ \E g \in GrownFrames(frame) \cup WithVulnerable(frame) :
         /\ frame' = g
         /\ latest_action' = analyze_frame(g)
    /\ pc' = "reanalyzed"
    /\ UNCHANGED <<decision_buffer, processing_status, job, remaining, cap,
                   out, total_frames, frame_count, final_consensus_action,
                   response, raised, job_actions, jobs>>

NextRisk ==
    \/ AnalyzeFrame
    \/ AnalyzeHeavierFrame

SpecRisk == InitRisk /\ [][NextRisk]_vars

\* ------------------------- the frame loop of process_video on its own
\* A video of up to MaxWindowFrames frames on a freshly constructed engine;
\* only the window, the vote and the count of frames are followed (lines
\* 89-95), not the status.
InitWindow ==
    /\ Constructed
    /\ pc = "pv_window"
    /\ frame = NoFrame

ClassifyAndVote ==
    /\ pc = "pv_window"
    /\ frame_count < MaxWindowFrames
    /\ frame_count' = frame_count + 1
    /\ UNCHANGED liveVars
    /\ \E f \in SampleFrames :
         /\ latest_action' = analyze_frame(f)
         /\ decision_buffer' = DequeAppend(decision_buffer, analyze_frame(f))
    /\ \E order \in SetIterOrders(decision_buffer') :
         final_consensus_action' = CurrentAction(order, decision_buffer')
    /\ UNCHANGED <<processing_status, pc, job, remaining, cap, out,
                   total_frames, frame, response, raised, job_actions, jobs>>

SpecWindow == InitWindow /\ [][ClassifyAndVote]_vars

\* ------------------------------------------- the live session
\* Everything of the media jobs, which the live session leaves alone.
jobVars == <<decision_buffer, processing_status, pc, job, remaining, cap, out,
             total_frames, frame_count, final_consensus_action, frame,
             response, raised, job_actions, jobs>>

\* A generator has taken a step: the running call of stop_streaming, if any,
\* is no longer alone.
Disturbed == [stopper EXCEPT !.quiet = FALSE]

\* video_feed: system.generate_frames() makes the generator; none of its
\* body runs before the consumer asks for the first frame.  This is the first
\* session of the engine.
VideoFeed(i) ==
    /\ pc = "live"
    /\ \A j \in Sessions : gen[j].pc = "none"
    /\ \A j \in Sessions : i <= j
    /\ gen' = [gen EXCEPT ![i].pc = "created"]
    /\ UNCHANGED <<jobVars, latest_action, streaming_running, webcam_capture,
                   handle, stopper>>

\* video_feed again after the session before it has ended.  The history of
\* the ended session and of its capture object is dropped, and a call of
\* stop_streaming still running did not arrive during the new session.
VideoFeedAgain(i) ==
    /\ pc = "live"
    /\ gen[i].pc = "done"
    /\ \A j \in Sessions : j # i => gen[j].pc = "none"
    /\ gen' = [gen EXCEPT ![i] = [NoGenerator EXCEPT !.pc = "created"]]
    /\ handle' = [handle EXCEPT ![i] = NoHandle]
    /\ stopper' = [stopper EXCEPT !.quiet = FALSE,
                                  !.in_loop = @ \ {i},
                                  !.unstarted = @ \ {i}]
    /\ UNCHANGED <<jobVars, latest_action, streaming_running, webcam_capture>>

\* video_feed while another session has been made and has not ended.
VideoFeedWhileActive(i) ==
    /\ pc = "live"
    /\ gen[i].pc = "none"
    /\ \A j \in Sessions : j < i => gen[j].pc # "none"
    /\ \E j \in Sessions : j # i /\ (Active(gen[j]) \/ gen[j].pc = "created")
    /\ gen' = [gen EXCEPT ![i].pc = "created"]
    /\ UNCHANGED <<jobVars, latest_action, streaming_running, webcam_capture,
                   handle, stopper>>

\* Line 105, on the consumer's first next(): self.streaming_running = True
GStart(i) ==
    /\ pc = "live"
    /\ gen[i].pc = "created"
    /\ streaming_running' = TRUE
    /\ gen' = [gen EXCEPT ![i].pc = "l106"]
    /\ stopper' = Disturbed
    /\ UNCHANGED <<jobVars, latest_action, webcam_capture, handle>>

\* Line 106, right-hand side: cv2.VideoCapture(0) makes the capture object of
\* the session; the camera opens or not.
GOpen(i) ==
    /\ pc = "live"
    /\ gen[i].pc = "l106"
    /\ \E opened \in BOOLEAN :
         handle' = [handle EXCEPT ![i].state =
                                     IF opened THEN "open" ELSE "unopened",
                                  ![i].was_open = opened]
    /\ gen' = [gen EXCEPT ![i].pc = "l106s"]
    /\ stopper' = Disturbed
    /\ UNCHANGED <<jobVars, latest_action, streaming_running, webcam_capture>>

\* Line 106, the store: self.webcam_capture = <the new object>.  The object
\* the attribute referred to before loses its reference.
GStore(i) ==
    /\ pc = "live"
    /\ gen[i].pc = "l106s"
    /\ handle' \in DropOutcomes(handle, webcam_capture)
    /\ webcam_capture' = i
    /\ gen' = [gen EXCEPT ![i].pc = "l107"]
    /\ stopper' = Disturbed
    /\ UNCHANGED <<jobVars, latest_action, streaming_running>>

\* Lines 107-108: self.webcam_capture.set(...), outside the try: on None it
\* raises AttributeError and the generator ends without its finally.
GConfigure(i) ==
    /\ pc = "live"
    /\ gen[i].pc = "l107"
    /\ gen' = IF webcam_capture = 0
              THEN [gen EXCEPT ![i].pc = "done", ![i].ended = "error"]
              ELSE [gen EXCEPT ![i].pc = "l110"]
    /\ stopper' = Disturbed
    /\ UNCHANGED <<jobVars, latest_action, streaming_running, webcam_capture,
                   handle>>

\* Line 110: if not self.webcam_capture.isOpened()
GCheckOpened(i) ==
    /\ pc = "live"
    /\ gen[i].pc = "l110"
    /\ gen' = IF webcam_capture = 0
              THEN [gen EXCEPT ![i].pc = "done", ![i].ended = "error"]
              ELSE IF handle[webcam_capture].state = "open"
              THEN [gen EXCEPT ![i].pc = "l116"]
              ELSE [gen EXCEPT ![i].pc = "l111"]
    /\ stopper' = Disturbed
    /\ UNCHANGED <<jobVars, latest_action, streaming_running, webcam_capture,
                   handle>>

\* Line 111: self.streaming_running = False
GNotOpenedFlag(i) ==
    /\ pc = "live"
    /\ gen[i].pc = "l111"
    /\ streaming_running' = FALSE
    /\ gen' = [gen EXCEPT ![i].pc = "l112"]
    /\ stopper' = Disturbed
    /\ UNCHANGED <<jobVars, latest_action, webcam_capture, handle>>

\* Lines 112-113: self.webcam_capture = None; return
GNotOpenedClear(i) ==
    /\ pc = "live"
    /\ gen[i].pc = "l112"
    /\ handle' \in DropOutcomes(handle, webcam_capture)
    /\ webcam_capture' = 0
    /\ gen' = [gen EXCEPT ![i].pc = "done", ![i].ended = "return"]
    /\ stopper' = Disturbed
    /\ UNCHANGED <<jobVars, latest_action, streaming_running>>

\* Line 116: while self.streaming_running, on entry and on each next() of
\* the consumer after a yield.
GLoopTest(i) ==
    /\ pc = "live"
    /\ gen[i].pc \in {"l116", "yielded"}
    /\ gen' = IF streaming_running
              THEN [gen EXCEPT ![i].pc = "l117"]
              ELSE [gen EXCEPT ![i].pc = "l126", ![i].ended = "return"]
    /\ stopper' = Disturbed
    /\ UNCHANGED <<jobVars, latest_action, streaming_running, webcam_capture,
                   handle>>

\* Lines 117-118: success, frame = self.webcam_capture.read(); if not
\* success: break.  On None it raises; a capture that is not open delivers
\* no frame; an open one delivers a frame or fails.
GRead(i) ==
    /\ pc = "live"
    /\ gen[i].pc = "l117"
    /\ \/ /\ webcam_capture = 0
          /\ gen' = [gen EXCEPT ![i].pc = "l126", ![i].ended = "error"]
          /\ UNCHANGED handle
       \/ /\ webcam_capture # 0
          /\ handle[webcam_capture].state # "open"
          /\ handle' = [handle EXCEPT ![webcam_capture].misused =
                           @ \/ handle[webcam_capture].state = "released"]
          /\ gen' = [gen EXCEPT ![i].pc = "l126", ![i].ended = "return"]
       \/ /\ webcam_capture # 0
          /\ handle[webcam_capture].state = "open"
          /\ \/ gen' = [gen EXCEPT ![i].pc = "l120"]
             \/ gen' = [gen EXCEPT ![i].pc = "l126", ![i].ended = "return"]
          /\ UNCHANGED handle
    /\ stopper' = Disturbed
    /\ UNCHANGED <<jobVars, latest_action, streaming_running, webcam_capture>>

\* Lines 120-124: analyze_frame(frame, draw_hud=False) sets latest_action;
\* the encoded frame is yielded.  The detector may raise.
GAnalyzeYield(i) ==
    /\ pc = "live"
    /\ gen[i].pc = "l120"
    /\ \/ /\ gen' = [gen EXCEPT ![i].pc = "l126", ![i].ended = "error"]
          /\ UNCHANGED latest_action
       \/ /\ \E f \in SampleFrames : latest_action' = analyze_frame(f)
          /\ gen' = [gen EXCEPT ![i].pc = "yielded",
                                ![i].yielded = TRUE,
                                ![i].after_stop =
                                   IF gen[i].stop_returned /\ @ < MaxCounted
                                   THEN @ + 1 ELSE @]
    /\ stopper' = Disturbed
    /\ UNCHANGED <<jobVars, streaming_running, webcam_capture, handle>>

\* The consumer closes the sequence (or drops it) while it is suspended at
\* the yield: GeneratorExit is raised there and the finally runs.
ConsumerClose(i) ==
    /\ pc = "live"
    /\ gen[i].pc = "yielded"
    /\ gen' = [gen EXCEPT ![i].pc = "l126", ![i].ended = "closed"]
    /\ stopper' = Disturbed
    /\ UNCHANGED <<jobVars, latest_action, streaming_running, webcam_capture,
                   handle>>

\* Line 126: if self.webcam_capture is not None
GFinallyCheck(i) ==
    /\ pc = "live"
    /\ gen[i].pc = "l126"
    /\ gen' = [gen EXCEPT ![i].pc =
                 IF webcam_capture # 0 THEN "l127" ELSE "l129"]
    /\ stopper' = Disturbed
    /\ UNCHANGED <<jobVars, latest_action, streaming_running, webcam_capture,
                   handle>>

\* Line 127: self.webcam_capture.release(); the attribute is read again, and
\* on None the finally itself raises and its last lines do not run.
GFinallyRelease(i) ==
    /\ pc = "live"
    /\ gen[i].pc = "l127"
    /\ IF webcam_capture = 0
       THEN /\ gen' = [gen EXCEPT ![i].pc = "done", ![i].ended = "error"]
            /\ UNCHANGED handle
       ELSE /\ handle' = Released(handle, webcam_capture)
            /\ gen' = [gen EXCEPT ![i].pc = "l128"]
    /\ stopper' = Disturbed
    /\ UNCHANGED <<jobVars, latest_action, streaming_running, webcam_capture>>

\* Line 128: self.webcam_capture = None
GFinallyClear(i) ==
    /\ pc = "live"
    /\ gen[i].pc = "l128"
    /\ handle' \in DropOutcomes(handle, webcam_capture)
    /\ webcam_capture' = 0
    /\ gen' = [gen EXCEPT ![i].pc = "l129"]
    /\ stopper' = Disturbed
    /\ UNCHANGED <<jobVars, latest_action, streaming_running>>

\* Line 129: self.streaming_running = False
GFinallyFlag(i) ==
    /\ pc = "live"
    /\ gen[i].pc = "l129"
    /\ streaming_running' = FALSE
    /\ gen' = [gen EXCEPT ![i].pc = "l130"]
    /\ stopper' = Disturbed
    /\ UNCHANGED <<jobVars, latest_action, webcam_capture, handle>>

GFinallyActionKeeps(i) ==
    /\ pc = "live"
    /\ gen[i].pc = "l130"
    /\ gen' = [gen EXCEPT ![i].pc = "done"]
    /\ stopper' = Disturbed
    /\ UNCHANGED <<jobVars, latest_action, streaming_running, webcam_capture,
                   handle>>

\* Line 130: self.latest_action = "--"
GFinallyAction(i) ==
    /\ pc = "live"
    /\ gen[i].pc = "l130"
    /\ latest_action' = Sentinel
    /\ gen' = [gen EXCEPT ![i].pc = "done"]
    /\ stopper' = Disturbed
    /\ UNCHANGED <<jobVars, streaming_running, webcam_capture, handle>>

\* ---------------------------------------------------- stop_streaming
\* What a return of stop_streaming records in the history of the sessions.
AfterStopReturn ==
    [i \in Sessions |->
        IF i \in stopper.in_loop
        THEN [gen[i] EXCEPT !.stop_returned = TRUE]
        ELSE IF i \in stopper.unstarted /\ gen[i].pc = "created"
        THEN [gen[i] EXCEPT !.early_stop = TRUE]
        ELSE gen[i]]

\* stop_feed_signal calls stop_streaming; line 133:
\* self.streaming_running = False
StopCall ==
    /\ pc = "live"
    /\ stopper.pc = "idle"
    /\ stopper.calls < MaxStops
    /\ streaming_running' = FALSE
    /\ stopper' = [pc |-> "s134", calls |-> stopper.calls + 1,
                   failed |-> FALSE, quiet |-> TRUE,
                   in_loop |-> { i \in Sessions : gen[i].pc \in LoopPcs },
                   unstarted |-> { i \in Sessions : gen[i].pc = "created" }]
    /\ UNCHANGED <<jobVars, latest_action, webcam_capture, handle, gen>>

StopCheckNoGuard ==
    /\ pc = "live"
    /\ stopper.pc = "s134"
    /\ stopper' = [stopper EXCEPT !.pc = "s135"]
    /\ UNCHANGED <<jobVars, latest_action, streaming_running, webcam_capture,
                   handle, gen>>

\* Line 134: if self.webcam_capture is not None
StopCheck ==
    /\ pc = "live"
    /\ stopper.pc = "s134"
    /\ stopper' = [stopper EXCEPT !.pc =
                     IF webcam_capture # 0 THEN "s135" ELSE "s137"]
    /\ UNCHANGED <<jobVars, latest_action, streaming_running, webcam_capture,
                   handle, gen>>

\* Line 135: self.webcam_capture.release(); the attribute is read again, and
\* on None the call raises AttributeError.
StopRelease ==
    /\ pc = "live"
    /\ stopper.pc = "s135"
    /\ IF webcam_capture = 0
       THEN /\ stopper' = [stopper EXCEPT !.pc = "idle", !.failed = TRUE]
            /\ gen' = AfterStopReturn
            /\ UNCHANGED handle
       ELSE /\ handle' = Released(handle, webcam_capture)
            /\ stopper' = [stopper EXCEPT !.pc = "s136"]
            /\ UNCHANGED gen
    /\ UNCHANGED <<jobVars, latest_action, streaming_running, webcam_capture>>

\* Line 136: self.webcam_capture = None
StopClear ==
    /\ pc = "live"
    /\ stopper.pc = "s136"
    /\ handle' \in DropOutcomes(handle, webcam_capture)
    /\ webcam_capture' = 0
    /\ stopper' = [stopper EXCEPT !.pc = "s137"]
    /\ UNCHANGED <<jobVars, latest_action, streaming_running, gen>>

\* Line 137: self.latest_action = "--", and the call returns.
StopAction ==
    /\ pc = "live"
    /\ stopper.pc = "s137"
    /\ latest_action' = Sentinel
    /\ stopper' = [stopper EXCEPT !.pc = "idle"]
    /\ gen' = AfterStopReturn
    /\ UNCHANGED <<jobVars, streaming_running, webcam_capture, handle>>

\* A freshly constructed engine serving the live feed.
InitLive ==
    /\ Constructed
    /\ pc = "live"
    /\ frame = NoFrame

GeneratorStep(i) ==
    \/ GStart(i)
    \/ GOpen(i)
    \/ GStore(i)
    \/ GConfigure(i)
    \/ GCheckOpened(i)
    \/ GNotOpenedFlag(i)
    \/ GNotOpenedClear(i)
    \/ GLoopTest(i)
    \/ GRead(i)
    \/ GAnalyzeYield(i)
    \/ ConsumerClose(i)
    \/ GFinallyCheck(i)
    \/ GFinallyRelease(i)
    \/ GFinallyClear(i)
    \/ GFinallyFlag(i)
    \/ GFinallyAction(i)

StopStep ==
    \/ StopCall
    \/ StopCheck
    \/ StopRelease
    \/ StopClear
    \/ StopAction

\* One live session at a time, restarted after it has ended, with
\* stop_streaming called at any moment.
NextLive ==
    \/ \E i \in Sessions : VideoFeed(i)
    \/ \E i \in Sessions : VideoFeedAgain(i)
    \/ \E i \in Sessions : GeneratorStep(i)
    \/ StopStep

SpecLive == InitLive /\ [][NextLive]_vars

\* Sessions started while the one before has not ended, none of them
\* stopped by stop_streaming.
NextLiveOverlap ==
    \/ \E i \in Sessions : VideoFeed(i)
    \/ \E i \in Sessions : VideoFeedWhileActive(i)
    \/ \E i \in Sessions : GeneratorStep(i)

SpecLiveOverlap == InitLive /\ [][NextLiveOverlap]_vars

\* =================================================== properties
\* ---- helpers of the properties
VulnerableCount(f) ==
    Cardinality({ i \in DOMAIN f.boxes : f.boxes[i].cls \in {0, 1} })

BoxHeights(f) == { f.boxes[i].y2 - f.boxes[i].y1 : i \in DOMAIN f.boxes }

LargestBoxHeight(f) ==
    IF f.boxes = <<>> THEN 0
    ELSE CHOOSE m \in BoxHeights(f) : \A h \in BoxHeights(f) : m >= h

\* 10 * height * risk, with risk = 5.0 * (largest height / frame height)
\* + 2.0 * vulnerable count.
ScaledRisk(f) == 50 * LargestBoxHeight(f) + 20 * VulnerableCount(f) * f.height

\* The actions with the highest count in a window, and among them the one
\* inserted last.
TiedMax(buf) ==
    { a \in Elements(buf) : \A b \in Elements(buf) : Count(buf, a) >= Count(buf, b) }

LastIndex(buf, a) ==
    CHOOSE i \in DOMAIN buf :
        buf[i] = a /\ \A j \in DOMAIN buf : buf[j] = a => j <= i

MostRecentTied(buf) ==
    CHOOSE a \in TiedMax(buf) :
        \A b \in TiedMax(buf) : LastIndex(buf, a) >= LastIndex(buf, b)

LastN(s, n) == IF Len(s) <= n THEN s ELSE SubSeq(s, Len(s) - n + 1, Len(s))

\* What an engine with an empty window can return for a video with these
\* per-frame actions.
FreshDecisions(acts) ==
    IF acts = <<>> THEN {"GO"} ELSE TiedMax(LastN(acts, 10))

VideoReturned ==
    pc = "idle" /\ job.kind = "video" /\ response.status # "none"

ExactSource ==
    job.kind = "video" /\ job.opens /\ job.reported > 0
    /\ job.frames = job.reported

\* ---- C1
\* C1: for every detection set of a frame, the empty one included, the
\* action analyze_frame leaves is STOP when risk > 3.5, otherwise SLOW DOWN
\* when risk > 1.2, otherwise GO, with risk = 5.0 * largest box height /
\* frame height + 2.0 * number of detections of class 0 or 1; risk exactly
\* 3.5 gives SLOW DOWN, exactly 1.2 gives GO, no detection gives GO.
C1_RiskDecision ==
    pc = "analyzed" =>
        /\ latest_action =
             IF ScaledRisk(frame) > 35 * frame.height THEN "STOP"
             ELSE IF ScaledRisk(frame) > 12 * frame.height THEN "SLOW DOWN"
             ELSE "GO"
        /\ ScaledRisk(frame) = 35 * frame.height => latest_action = "SLOW DOWN"
        /\ ScaledRisk(frame) = 12 * frame.height => latest_action = "GO"
        /\ frame.boxes = <<>> => latest_action = "GO"

C1_Witness ==
    /\ pc = "analyzed"
    /\ Len(frame.boxes) = 2
    /\ VulnerableCount(frame) = 1
    /\ ScaledRisk(frame) = 35 * frame.height
    /\ latest_action = "SLOW DOWN"

\* ---- C2
\* C2: when two or more actions share the highest count in the window, the
\* consensus after a push is the tied action inserted most recently.
C2_TieGoesToMostRecent ==
    decision_buffer # <<>> =>
        final_consensus_action = MostRecentTied(decision_buffer)

\* ---- C3
\* C3: after each frame, when one action occurs strictly more often in the
\* window than every other action, the running consensus is that action.
C3_StrictMajorityWins ==
    \A a \in Actions :
        ( /\ decision_buffer # <<>>
          /\ \A b \in Actions \ {a} :
                Count(decision_buffer, a) > Count(decision_buffer, b) )
        => final_consensus_action = a

C3_Witness ==
    /\ Len(decision_buffer) = 10
    /\ decision_buffer[1] = "STOP"
    /\ Count(decision_buffer, "STOP") = 4
    /\ Count(decision_buffer, "GO") = 3
    /\ Count(decision_buffer, "SLOW DOWN") = 3
    /\ final_consensus_action = "STOP"

\* ---- C4
\* C4: the decision process_video returns depends only on the per-frame
\* actions of that video: it is a decision an engine with an empty window
\* gives for them, whatever jobs ran before (a video of GO frames gives GO).
\* Stated for the returns whose vote was not a tie, so that it does not rest
\* on the order in which a tie is broken.
C4_DecisionFromOwnFrames ==
    ( /\ VideoReturned
      /\ response.status = "success"
      /\ Cardinality(TiedMax(decision_buffer)) <= 1 )
    => response.final_decision \in FreshDecisions(job_actions)

\* ---- C5
\* C5: a source that reports total_frames = 0 and still delivers frames is
\* processed without a division by zero, and the published progress stays 0
\* during the loop.
C5_ZeroTotalFrames ==
    (job.kind = "video" /\ job.opens /\ job.reported = 0 /\ job.frames > 0)
    => /\ raised # "ZeroDivisionError"
       /\ pc \in {"pv_loop", "pv_frame", "pv_status", "pv_progress"}
            => processing_status.progress = 0

\* ---- C6
\* C6: however process_video ends, the video source and the output sink
\* are released when control is back in the caller.
C6_ReleasedOnReturn ==
    (job.kind = "video" /\ pc \in {"ep_finish", "ep_except", "idle"})
    => (cap # "open" /\ out # "open")

\* ---- C7
\* C7: a video whose input cannot be opened as a frame source gets an error
\* result from the media endpoint and no driving action.
C7_UnopenableReportsFailure ==
    (VideoReturned /\ ~job.opens)
    => (response.status = "error" /\ response.final_decision = NoDecision)

\* ---- C8
\* C8: for a video whose source delivers exactly the N > 0 frames it
\* reported, the published progress never decreases during the job, and
\* when the job completes current_frame = N, progress = 100 and
\* is_processing is false.
C8_Completed ==
    (ExactSource /\ VideoReturned /\ response.status = "success")
    => /\ processing_status.current_frame = job.reported
       /\ processing_status.progress = 100
       /\ ~processing_status.is_processing

C8_Monotone ==
    (ExactSource /\ pc # "idle")
    => processing_status'.progress >= processing_status.progress

C8_ExactSourceProgress == []C8_Completed /\ [][C8_Monotone]_vars

C8_Witness ==
    /\ ExactSource
    /\ VideoReturned
    /\ response.status = "success"
    /\ job.reported = 2
    /\ processing_status.current_frame = 2
    /\ processing_status.progress = 100

\* ---- C9
\* C9: once a video job has published total_frames > 0 and until the next
\* job starts, current_frame <= total_frames and progress =
\* floor(current_frame * 100 / total_frames), whether the source delivers
\* more or fewer frames than it reported, and after the job has completed.
\* The state between the write of current_frame and the write of progress
\* of one frame is left out: it is stated for the states in which the
\* update of a frame is whole.
C9_StatusCoherent ==
    ( /\ job.kind = "video"
      /\ processing_status.total_frames > 0
      /\ pc \notin {"pv_open", "pv_progress"} )
    => /\ processing_status.current_frame <= processing_status.total_frames
       /\ processing_status.progress =
            (processing_status.current_frame * 100)
               \div processing_status.total_frames

\* ---- C10
\* C10: a job that fails with an error gets an error result from the media
\* endpoint, after which is_processing is false; the failure handler leaves
\* current_frame, total_frames and progress as last published.
C10_Terminal ==
    (pc = "idle" /\ response.status = "error")
    => ~processing_status.is_processing

C10_Handler ==
    pc = "ep_except"
    => /\ response'.status = "error"
       /\ pc' = "idle"
       /\ processing_status'.current_frame = processing_status.current_frame
       /\ processing_status'.total_frames = processing_status.total_frames
       /\ processing_status'.progress = processing_status.progress

C10_FailureIsTerminal == []C10_Terminal /\ [][C10_Handler]_vars

C10_Witness ==
    /\ pc = "idle"
    /\ job.kind = "video"
    /\ response.status = "error"
    /\ raised = "WriterError"
    /\ processing_status.current_frame = 1
    /\ ~processing_status.is_processing

\* ---- helpers of the properties of the live session
\* The session has ended and no call of stop_streaming is under way.
Ended(i) == gen[i].pc = "done" /\ stopper.pc = "idle"

\* ---- C11
\* C11: every way the frame sequence of a live session can end after its
\* source was opened (stop request, failed read, failure while processing a
\* frame, consumer closing the sequence) leaves the capture released and
\* the attribute cleared, streaming_running false and latest_action "--".
C11_TeardownComplete ==
    \A i \in Sessions :
        (Ended(i) /\ handle[i].was_open)
        => /\ handle[i].state = "released"
           /\ webcam_capture = 0
           /\ ~streaming_running
           /\ latest_action = "--"

\* ---- C12
\* C12: a stop_streaming issued after the frame sequence of a live session
\* was created and before its first frame is read makes the sequence yield
\* no frame at all: no frame is read from the camera and none is yielded.
C12_EarlyStopEmpties ==
    \A i \in Sessions :
        gen[i].early_stop => (~gen[i].yielded /\ gen[i].pc # "l120")

\* ---- C13
\* C13: with a single live session, once a stop_streaming that arrived while
\* the streaming task was in its loop has returned, the sequence yields at
\* most one further frame, reads no frame after that one, and after it has
\* ended the ambient action is "--".
C13_StopEndsWithinOneFrame ==
    \A i \in Sessions :
        gen[i].stop_returned
        => /\ gen[i].after_stop <= 1
           /\ gen[i].after_stop = 1 => gen[i].pc \notin {"l117", "l120"}
           /\ gen[i].pc = "done" => latest_action = "--"

\* A stop that arrived while a frame was being processed: that frame was
\* still yielded, then the sequence ended.
C13_Witness ==
    \E i \in Sessions :
        /\ gen[i].stop_returned
        /\ gen[i].after_stop = 1
        /\ gen[i].pc = "done"
        /\ latest_action = "--"

\* ---- C14
\* C14: under every interleaving of stop_streaming with the loop of
\* generate_frames and its teardown, the capture of the session is released
\* at most once, and neither side reads from or releases a capture the
\* other side has released.
C14_ReleasedOnce ==
    \A h \in Sessions :
        handle[h].was_open => (handle[h].releases <= 1 /\ ~handle[h].misused)

\* ---- C15
\* C15: at most one capture opened by the engine is open and unreleased at
\* any time, and a capture that is open is the one the engine refers to:
\* starting a second live session while the first is streaming does not leave
\* the capture of the first open with no reference that could release it.
C15_SingleOpenSource ==
    /\ Cardinality({ h \in Sessions : handle[h].state = "open" }) <= 1
    /\ \A h \in Sessions :
           (handle[h].state = "open" /\ gen[h].pc # "l106s")
           => webcam_capture = h

PushEvictsOldest ==
    LET old == decision_buffer
        new == decision_buffer'
    IN  IF Len(old) = 10
        THEN /\ Len(new) = 10
             /\ \A k \in 1..9 : new[k] = old[k + 1]
             /\ new[10] = latest_action'
        ELSE new = Append(old, latest_action')

\* C17: the decision window never holds more than 10 actions after any
\* sequence of processed frames, and pushing an action onto a full window
\* evicts exactly the oldest entry and keeps the order of the others.
C17_WindowBounded ==
    /\ [](Len(decision_buffer) <= 10)
    /\ [][PushEvictsOldest]_vars

\* Eleven frames went through a window that holds ten: the first frame (GO)
\* was evicted, the second (STOP) is now the oldest.
C17_Witness ==
    /\ frame_count = 11
    /\ Len(decision_buffer) = 10
    /\ decision_buffer[1] = "STOP"
    /\ \A k \in 2..10 : decision_buffer[k] = "GO"

\* ---- C18
\* GO < SLOW DOWN < STOP
Severity(a) == IF a = "STOP" THEN 2 ELSE IF a = "SLOW DOWN" THEN 1 ELSE 0

\* C18: growing the box of one detection, the others fixed, or adding a
\* detection of a vulnerable class never decreases the risk score of the
\* frame and never lowers the severity of the action, GO < SLOW DOWN < STOP.
C18_RiskMonotone ==
    [][pc' = "reanalyzed"
       => /\ RiskScore(frame') >= RiskScore(frame)
          /\ Severity(latest_action') >= Severity(latest_action)]_vars

\* A frame that was analyzed as less than STOP and, heavier by a pedestrian
\* added after a higher box, is STOP.
C18_Witness ==
    /\ pc = "reanalyzed"
    /\ Len(frame.boxes) = 2
    /\ frame.boxes[1].cls = 2
    /\ frame.boxes[2].cls = 0
    /\ frame.boxes[1].y2 - frame.boxes[1].y1 > frame.boxes[2].y2 - frame.boxes[2].y1
    /\ analyze_frame([frame EXCEPT !.boxes = <<frame.boxes[1]>>]) = "SLOW DOWN"
    /\ latest_action = "STOP"

\* ---- C19
\* C19: when the live source fails to open, streaming_running is false in
\* every state of that attempt, from the failed open to the return of line
\* 113, and no frame is yielded.
C19_NeverRunningWhenUnopened ==
    \A i \in Sessions :
        (handle[i].state = "unopened"
         /\ gen[i].pc \in {"l106s", "l107", "l110", "l111", "l112"})
        => (~streaming_running /\ ~gen[i].yielded)

\* ---- C20
\* C20: whenever no live session is streaming and no job is under way, the
\* ambient action the current-status interface reports is "--": an image or
\* video job leaves no other ambient action behind.
C20_AmbientSentinelWhenIdle ==
    (pc = "idle" /\ ~streaming_running) => latest_action = "--"

====
